---- MODULE Spec2Model ----
(***************************************************************************)
(* Chunked snapshot-dump engine of udup's MySQL driver (package mysql):    *)
(* the Chunk Planner (getDumpEntries), the Chunk Extractor with its Value  *)
(* Encoder (getChunkData, needsQuoting), the Worker Pool (worker) and the  *)
(* Dump Orchestrator (Dump).                                               *)
(*                                                                         *)
(* Strings whose characters matter are sequences of runes (Unicode code    *)
(* points as integers); fixed texts are TLA+ strings.                      *)
(*                                                                         *)
(* The specifications of the module:                                       *)
(*   Spec          the dump pipeline: Dump, dispatcher, workers, consumer  *)
(*   FairSpec      Spec under weak fairness of the pipeline's steps        *)
(*   StallFairSpec the same with one range query that never returns        *)
(*   SpecChanging  Spec with rows deleted from the source during the dump  *)
(*   SpecUpsert    a chunk's statement applied twice to a target table     *)
(*   SpecEnc       the Value Encoder applied to bounded column values      *)
(*   SpecPlan      the Chunk Planner applied to bounded (total, chunkSize) *)
(***************************************************************************)
EXTENDS Integers, Sequences, FiniteSets, TLC

(***************************************************************************)
(* Bounds of the model.                                                    *)
(***************************************************************************)
\* largest source table (rows) of the pipeline specification
MaxRows == 2
\* largest chunk size of the pipeline specification
MaxChunkSize == 2
\* largest requested concurrency w passed to Dump
MaxW == 2
\* longest column value of the encoder specification
MaxLen == 3
\* largest row count / chunk size of the planner specification
MaxPlanTotal == 20
MaxPlanChunk == 5
\* most rows of a chunk whose statement is applied to a target table
MaxUpsertRows == 2

(***************************************************************************)
(* Program constants.                                                      *)
(***************************************************************************)
\* const defaultChunkSize = 1000
defaultChunkSize == 1000

\* runes used by the encoder's formats
BackslashRune == 92
QuoteRune == 39

\* stringOfBackslashAndQuoteChars, rune by rune.  The source literal reads
\* "...\ufe68uff3c\u0022...": after U+FE68 come the five plain characters
\* 'u' 'f' 'f' '3' 'c' (117 102 102 51 99), not the rune U+FF3C.
stringOfBackslashAndQuoteChars ==
    << 92, 165, 352, 8361, 8726, 65128, 117, 102, 102, 51, 99,
       34, 39, 96, 180, 697, 698, 699, 700, 712, 714, 715, 729, 768, 769,
       8216, 8217, 8218, 8242, 8245, 10075, 10076, 65287 >>

Range(s) == { s[i] : i \in DOMAIN s }

Min(a, b) == IF a <= b THEN a ELSE b

(***************************************************************************)
(* Value Encoder: needsQuoting and the per-column branch of getChunkData.  *)
(***************************************************************************)
\* strings.ContainsAny(s, stringOfBackslashAndQuoteChars)
needsQuoting(s) ==
    \E i \in DOMAIN s : s[i] \in Range(stringOfBackslashAndQuoteChars)

\* A byte of a value that is not part of a valid UTF-8 sequence is written
\* as the negative of its value (-255 for 0xFF).  "for _, char_c := range
\* colValue" decodes such a byte to utf8.RuneError (U+FFFD), which "%c"
\* then writes out.
decodeRune(c) == IF c < 0 THEN 65533 ELSE c

\* the loop over the runes of colValue writing into entry.colBuffer
RECURSIVE escapeRunes(_)
escapeRunes(s) ==
    IF s = << >> THEN << >>
    ELSE LET c == << decodeRune(Head(s)) >>
         IN  (IF needsQuoting(c) THEN << BackslashRune >> ELSE << >>)
             \o c \o escapeRunes(Tail(s))

\* a column value is a sql.RawBytes: nil (NULL) or its text
NullCol == [null |-> TRUE, text |-> << >>]
TextCol(s) == [null |-> FALSE, text |-> s]

\* the token "NULL"
NullToken == << 78, 85, 76, 76 >>

\* encodeValue without the '%s' wrapping of a value that needs no escaping
encodeValueBare(col) ==
    IF col.null
    THEN NullToken
    ELSE IF ~needsQuoting(col.text)
         THEN col.text
         ELSE << QuoteRune >> \o escapeRunes(col.text) \o << QuoteRune >>

\* encodeValue testing len(col) == 0 instead of col == nil
encodeValueEmptyIsNull(col) ==
    IF col.null \/ col.text = << >>
    THEN NullToken
    ELSE LET value == IF ~needsQuoting(col.text)
                      THEN col.text
                      ELSE escapeRunes(col.text)
         IN  << QuoteRune >> \o value \o << QuoteRune >>

\* body of "for i, col := range values"
encodeValue(col) ==
    IF col.null
    THEN NullToken
    ELSE LET colValue == col.text
             value == IF ~needsQuoting(colValue)
                      THEN colValue
                      ELSE escapeRunes(colValue)
         IN  << QuoteRune >> \o value \o << QuoteRune >>

\* strings.Join(elems, sep) over rune strings
RECURSIVE joinRunes(_, _)
joinRunes(elems, sep) ==
    IF elems = << >> THEN << >>
    ELSE IF Len(elems) = 1 THEN elems[1]
    ELSE elems[1] \o sep \o joinRunes(Tail(elems), sep)

\* "(" + strings.Join(dataStrings, ",") + ")"
encodeRow(row) ==
    << 40 >> \o joinRunes([i \in DOMAIN row |-> encodeValue(row[i])], << 44 >>)
             \o << 41 >>

(***************************************************************************)
(* Chunk Planner: getDumpEntries.                                          *)
(***************************************************************************)
\* ceilDiv rounding down: int(float64(total) / float64(d.chunkSize))
floorDiv(total, chunk) == total \div chunk

\* int(math.Ceil(float64(total) / float64(d.chunkSize))); the float64
\* conversions and the division are exact enough to give the integer
\* ceiling for every total below 2^53, which covers the model's range.
ceilDiv(total, chunk) == (total + chunk - 1) \div chunk

\* the empty Go string of dumpEntry.Values, and a generated statement
NoStatement == [stmt |-> FALSE, columns |-> << >>, tuples |-> << >>,
                update |-> ""]

newDumpEntry(sys, dbSQL, tbSQL, total, offset) ==
    [ SystemVariablesStatement |-> sys,
      DbSQL     |-> dbSQL,
      TbSQL     |-> tbSQL,
      Values    |-> NoStatement,
      RowsCount |-> total,
      Offset    |-> offset,
      Counter   |-> 0,
      data_text |-> << >>,
      err       |-> "nil" ]

\* getDumpEntries after a successful getRowsCount returning total
getDumpEntries(total, chunk, sys, dbSQL, tbSQL) ==
    LET c == ceilDiv(total, chunk)
        sliceCount == IF c = 0 THEN 1 ELSE c
    IN  [ i \in 1..sliceCount |->
            newDumpEntry(sys, dbSQL, tbSQL, total, (i - 1) * chunk) ]

(***************************************************************************)
(* State.                                                                  *)
(***************************************************************************)
VARIABLES
    \* --- the dumper and the source database -----------------------------
    chunkSize,      \* d.chunkSize
    entriesCount,   \* d.entriesCount
    tableRows,      \* rows of the source table TableSchema.TableName
    \* --- the call Dump(systemVariablesStatement, w) ---------------------
    w,              \* the argument w
    dumpPc,         \* "idle" before the call, "returned" after it
    dumpErr,        \* the error Dump returned ("nil" for nil)
    entries,        \* the []*dumpEntry built by getDumpEntries (the heap
                    \* objects: workers and results refer to them by index)
    \* --- goroutines -----------------------------------------------------
    workers,        \* k |-> [pc, e]: position of worker k and the entry it
                    \* holds; pc "recv" (at range entriesChannel), "work"
                    \* (before getChunkData), "send" (at resultsChannel <- e),
                    \* "done" (left the loop)
    dispPc,         \* the anonymous dispatcher goroutine: "none" (never
                    \* started), "send" (at entriesChannel <- e), "close",
                    \* "done"
    next,           \* index in entries of the dispatcher's loop
    closed,         \* entriesChannel is closed
    results,        \* what the consumer has received from d.resultsChannel,
                    \* in arrival order (indices into entries)
    \* --- history of what the database answered --------------------------
    planLog,        \* the replies to SHOW CREATE TABLE and SELECT COUNT(*)
    dbLog,          \* entry index |-> the reply its range query got
    stalled,        \* index of the entry whose range query never returns
                    \* (0: the database answers every query)
    \* --- the encoder and the planner applied on their own ----------------
    encPc, encIn, encOut,
    planPc, planIn, planOut,
    \* --- a chunk's statement applied to a target table -------------------
    upPc,           \* "off", "rows" (chunk read), "stmt" (statement built)
    upRows,         \* the rows the chunk's range query returned
    upStmt,         \* entry.Values built from them
    upTarget,       \* rows of the target table, in insertion order
    upOnce,         \* the target after the first application
    upApplied       \* how many times the statement has been applied

poolVars == << chunkSize, entriesCount, tableRows, w, dumpPc, dumpErr, entries,
               workers, dispPc, next, closed, results, planLog, dbLog,
               stalled >>
encVars  == << encPc, encIn, encOut >>
planVars == << planPc, planIn, planOut >>
upVars   == << upPc, upRows, upStmt, upTarget, upOnce, upApplied >>
vars     == << poolVars, encVars, planVars, upVars >>

(***************************************************************************)
(* The source database.                                                    *)
(***************************************************************************)
TableSchema == "db"
TableName   == "t"

\* rows.Columns() of the table
columns == << "id", "v" >>

\* second-column values of the model's table, by row number
sampleValues ==
    << TextCol(<< 79, 39, 66 >>),       \* O'B
       NullCol,
       TextCol(<< >>),
       TextCol(<< 97, 98 >>),           \* ab
       TextCol(<< 92, 117 >>) >>        \* \u

\* row r (1-based) of the source table: (id, v)
sourceRow(r) ==
    << TextCol(<< 48 + r >>), sampleValues[((r - 1) % Len(sampleValues)) + 1] >>

\* the range query without its LIMIT: every row from the offset on
chunkRowsNoLimit(offset, chunk, rowsNow) ==
    LET n == IF rowsNow <= offset THEN 0 ELSE rowsNow - offset
    IN  [ j \in 1..n |-> sourceRow(offset + j) ]

\* rows of SELECT * ... LIMIT chunk OFFSET offset on a table of rowsNow rows
chunkRows(offset, chunk, rowsNow) ==
    LET n == IF rowsNow <= offset THEN 0 ELSE Min(chunk, rowsNow - offset)
    IN  [ j \in 1..n |-> sourceRow(offset + j) ]

\* what the database can answer to the range query of an entry:
\*   ok          every row is returned and scanned
\*   queryErr    d.db.Query fails
\*   columnsErr  rows.Columns fails
\*   scanErr     rows.Scan fails on row `at` (rows before it were scanned)
\*   nextErr     rows.Next returns false after `at` rows because of an
\*               error (rows.Err() is non-nil), rows remaining
\*   noQuery     the table is known to be empty (entry.RowsCount = 0); the
\*               reply is never looked at
dbReplies(entry, chunk, rowsNow) ==
    LET n == Len(chunkRows(entry.Offset, chunk, rowsNow))
    IN  IF entry.RowsCount = 0
        THEN { [kind |-> "noQuery", at |-> 0] }
        ELSE { [kind |-> k, at |-> 0] : k \in {"ok", "queryErr", "columnsErr"} }
             \cup { [kind |-> "scanErr", at |-> a] : a \in 1..n }
             \cup { [kind |-> "nextErr", at |-> a] : a \in 0..(n - 1) }

\* log entry of a job whose extraction has not run
pendingReply == [kind |-> "pending", at |-> 0, queried |-> FALSE]

\* replies to the two planning queries
createReplies ==
    { [err |-> FALSE, table |-> TableName],
      [err |-> FALSE, table |-> "other"],
      [err |-> TRUE,  table |-> ""] }
countReplies == { "ok", "err" }
planReplies == [ create : createReplies, count : countReplies ]
noPlan == [ create |-> [err |-> FALSE, table |-> ""], count |-> "none" ]

(***************************************************************************)
(* Schema Introspector.                                                    *)
(***************************************************************************)
\* createTableSQL without the comparison of table_return with d.TableName
createTableSQLUnchecked(reply) ==
    IF reply.err
    THEN [sql |-> "", err |-> "queryErr"]
    ELSE [sql |-> "USE db;CREATE TABLE t", err |-> "nil"]

createTableSQL(reply) ==
    IF reply.err
    THEN [sql |-> "", err |-> "queryErr"]
    ELSE IF reply.table # TableName
    THEN [sql |-> "", err |-> "Returned table is not the same as requested table"]
    ELSE [sql |-> "USE db;CREATE TABLE t", err |-> "nil"]

getRowsCount(reply, rowsNow) ==
    IF reply = "err"
    THEN [total |-> 0, err |-> "queryErr"]
    ELSE [total |-> rowsNow, err |-> "nil"]

(***************************************************************************)
(* Chunk Extractor: getChunkData.                                          *)
(***************************************************************************)
\* a counter kept on the dumper for all entries instead of on the entry
incrementDumperCounter(counter, scanned) ==
    LET RECURSIVE sumCounters(_)
        sumCounters(i) == IF i = 0 THEN 0 ELSE entries[i].Counter + sumCounters(i - 1)
    IN  sumCounters(Len(entries)) + scanned

\* entry.incrementCounter() once for each of the scanned rows
incrementCounter(counter, scanned) == counter + scanned

\* the insert ... values ... on duplicate key update text
statement(cols, tuples) ==
    [stmt |-> TRUE, columns |-> cols, tuples |-> tuples, update |-> cols[1]]

\* getChunkData without the early return on entry.RowsCount == 0
getChunkDataAlwaysQueries(entry, chunk, rowsNow, reply) ==
    IF reply.kind = "queryErr"
    THEN [entry |-> entry, err |-> "queryErr", queried |-> TRUE]
    ELSE IF reply.kind = "columnsErr"
    THEN [entry |-> entry, err |-> "columnsErr", queried |-> TRUE]
    ELSE LET rows == chunkRows(entry.Offset, chunk, rowsNow)
             scanned == CASE reply.kind = "scanErr" -> reply.at - 1
                          [] reply.kind = "nextErr" -> reply.at
                          [] OTHER -> Len(rows)
             text == [ j \in 1..scanned |-> encodeRow(rows[j]) ]
             e1 == [entry EXCEPT !.data_text = text,
                                 !.Counter = incrementCounter(@, scanned)]
         IN  IF reply.kind = "scanErr"
             THEN [entry |-> e1, err |-> "scanErr", queried |-> TRUE]
             ELSE [entry |-> [e1 EXCEPT !.Values = statement(columns, text)],
                   err |-> "nil", queried |-> TRUE]

\* returns the entry as getChunkData leaves it, the error it returns, and
\* whether d.db.Query was called
getChunkData(entry, chunk, rowsNow, reply) ==
    IF entry.RowsCount = 0
    THEN [entry |-> entry, err |-> "nil", queried |-> FALSE]
    ELSE IF reply.kind = "queryErr"
    THEN [entry |-> entry, err |-> "queryErr", queried |-> TRUE]
    ELSE IF reply.kind = "columnsErr"
    THEN [entry |-> entry, err |-> "columnsErr", queried |-> TRUE]
    ELSE LET rows == chunkRows(entry.Offset, chunk, rowsNow)
             \* rows that went through the loop body to incrementCounter
             scanned == CASE reply.kind = "scanErr" -> reply.at - 1
                          [] reply.kind = "nextErr" -> reply.at
                          [] OTHER -> Len(rows)
             text == [ j \in 1..scanned |-> encodeRow(rows[j]) ]
             e1 == [entry EXCEPT !.data_text = text,
                                 !.Counter = incrementCounter(@, scanned)]
         IN  IF reply.kind = "scanErr"
             THEN [entry |-> e1, err |-> "scanErr", queried |-> TRUE]
             ELSE [entry |-> [e1 EXCEPT !.Values = statement(columns, text)],
                   err |-> "nil", queried |-> TRUE]

(***************************************************************************)
(* Dump Orchestrator and Worker Pool.                                      *)
(***************************************************************************)
\* workersCount taken from w alone
workersCountUnclamped(win, n) == win

\* int(math.Min(float64(w), float64(len(entries))))
workersCountOf(win, n) == Min(win, n)

\* a dispatcher loop that stops one entry short
dispatcherClosesEarly(i, n) == IF i + 1 < n THEN "send" ELSE "close"

\* where the dispatcher stands after handing over entries[i] of n
dispatcherAfterSend(i, n) == IF i < n THEN "send" ELSE "close"

\* Dump: planning, then the go statements; the goroutines it starts take
\* their first steps afterwards (they block on the channels until then)
Dump(win, plan) ==
    /\ dumpPc = "idle"
    /\ dumpPc' = "returned"
    /\ w' = win
    /\ planLog' = plan
    /\ LET tb  == createTableSQL(plan.create)
           cnt == getRowsCount(plan.count, tableRows)
           es  == getDumpEntries(cnt.total, chunkSize, "SET x", "CREATE DATABASE db",
                                 tb.sql)
           workersCount == workersCountOf(win, Len(es))
       IN  IF tb.err # "nil"
           THEN /\ dumpErr' = tb.err
                /\ UNCHANGED << entries, entriesCount, workers, dispPc, dbLog >>
           ELSE IF cnt.err # "nil"
           THEN /\ dumpErr' = cnt.err
                /\ UNCHANGED << entries, entriesCount, workers, dispPc, dbLog >>
           ELSE /\ dumpErr' = "nil"
                /\ entries' = es
                /\ dbLog' = [ i \in DOMAIN es |-> pendingReply ]
                /\ IF workersCount < 1
                   THEN UNCHANGED << entriesCount, workers, dispPc >>
                   ELSE /\ entriesCount' = Len(es)
                        /\ workers' = [ k \in 1..workersCount |->
                                          [pc |-> "recv", e |-> 0] ]
                        /\ dispPc' = "send"
    /\ UNCHANGED << chunkSize, tableRows, next, closed, results >>
    /\ UNCHANGED << stalled, encVars, planVars, upVars >>

\* a dispatcher that hands the same entry over again and again
WorkerRecvRepeats(k) ==
    /\ k \in DOMAIN workers
    /\ dispPc = "send"
    /\ workers[k].pc = "recv"
    /\ workers' = [workers EXCEPT ![k] = [pc |-> "work", e |-> next]]
    /\ UNCHANGED << chunkSize, entriesCount, tableRows, w, dumpPc, dumpErr,
                    entries, closed, results, planLog, dbLog, next, dispPc >>
    /\ UNCHANGED << stalled, encVars, planVars, upVars >>

\* a dispatcher that ranges over entries from the last to the first
WorkerRecvReversed(k) ==
    /\ k \in DOMAIN workers
    /\ dispPc = "send"
    /\ workers[k].pc = "recv"
    /\ workers' = [workers EXCEPT ![k] =
                     [pc |-> "work", e |-> Len(entries) - next + 1]]
    /\ next' = next + 1
    /\ dispPc' = dispatcherAfterSend(next, Len(entries))
    /\ UNCHANGED << chunkSize, entriesCount, tableRows, w, dumpPc, dumpErr,
                    entries, closed, results, planLog, dbLog >>
    /\ UNCHANGED << stalled, encVars, planVars, upVars >>

\* entriesChannel is unbuffered: the dispatcher's send of entries[next] and
\* worker k's receive are one hand-over
WorkerRecv(k) ==
    /\ k \in DOMAIN workers
    /\ dispPc = "send"
    /\ workers[k].pc = "recv"
    /\ workers' = [workers EXCEPT ![k] = [pc |-> "work", e |-> next]]
    /\ next' = next + 1
    /\ dispPc' = dispatcherAfterSend(next, Len(entries))
    /\ UNCHANGED << chunkSize, entriesCount, tableRows, w, dumpPc, dumpErr,
                    entries, closed, results, planLog, dbLog >>
    /\ UNCHANGED << stalled, encVars, planVars, upVars >>

\* a dispatcher that ends without close(entriesChannel)
DispatcherForgetsClose ==
    /\ dispPc = "close"
    /\ dispPc' = "done"
    /\ UNCHANGED << chunkSize, entriesCount, tableRows, w, dumpPc, dumpErr,
                    entries, workers, next, results, planLog, dbLog, closed >>
    /\ UNCHANGED << stalled, encVars, planVars, upVars >>

\* close(entriesChannel)
DispatcherClose ==
    /\ dispPc = "close"
    /\ closed' = TRUE
    /\ dispPc' = "done"
    /\ UNCHANGED << chunkSize, entriesCount, tableRows, w, dumpPc, dumpErr,
                    entries, workers, next, results, planLog, dbLog >>
    /\ UNCHANGED << stalled, encVars, planVars, upVars >>

\* range over the closed channel ends worker k's loop
WorkerExit(k) ==
    /\ k \in DOMAIN workers
    /\ workers[k].pc = "recv"
    /\ closed
    /\ workers' = [workers EXCEPT ![k].pc = "done"]
    /\ UNCHANGED << chunkSize, entriesCount, tableRows, w, dumpPc, dumpErr,
                    entries, dispPc, next, closed, results, planLog, dbLog >>
    /\ UNCHANGED << stalled, encVars, planVars, upVars >>

\* d.db.Query of entry i is the call that never returns; an entry with
\* RowsCount = 0 asks no query
queryHangs(i) == i = stalled /\ entries[i].RowsCount # 0

\* a worker that goes back to the queue without sending when getChunkData
\* returned an error
WorkerExtractDropsFailed(k, reply) ==
    /\ k \in DOMAIN workers
    /\ workers[k].pc = "work"
    /\ ~queryHangs(workers[k].e)
    /\ LET i == workers[k].e
           r == getChunkData(entries[i], chunkSize, tableRows, reply)
       IN  /\ reply \in dbReplies(entries[i], chunkSize, tableRows)
           /\ entries' = [entries EXCEPT ![i] =
                            IF r.err # "nil"
                            THEN [r.entry EXCEPT !.err = r.err]
                            ELSE r.entry]
           /\ dbLog' = [dbLog EXCEPT ![i] =
                          [kind |-> reply.kind, at |-> reply.at,
                           queried |-> r.queried]]
           /\ workers' = [workers EXCEPT ![k] =
                            IF r.err # "nil"
                            THEN [pc |-> "recv", e |-> 0]
                            ELSE [pc |-> "send", e |-> i]]
    /\ UNCHANGED << chunkSize, entriesCount, tableRows, w, dumpPc, dumpErr,
                    dispPc, next, closed, results, planLog >>
    /\ UNCHANGED << stalled, encVars, planVars, upVars >>

\* err := d.getChunkData(e); if err != nil { e.err = err }
WorkerExtract(k, reply) ==
    /\ k \in DOMAIN workers
    /\ workers[k].pc = "work"
    /\ ~queryHangs(workers[k].e)
    /\ LET i == workers[k].e
           r == getChunkData(entries[i], chunkSize, tableRows, reply)
       IN  /\ reply \in dbReplies(entries[i], chunkSize, tableRows)
           /\ entries' = [entries EXCEPT ![i] =
                            IF r.err # "nil"
                            THEN [r.entry EXCEPT !.err = r.err]
                            ELSE r.entry]
           /\ dbLog' = [dbLog EXCEPT ![i] =
                          [kind |-> reply.kind, at |-> reply.at,
                           queried |-> r.queried]]
    /\ workers' = [workers EXCEPT ![k].pc = "send"]
    /\ UNCHANGED << chunkSize, entriesCount, tableRows, w, dumpPc, dumpErr,
                    dispPc, next, closed, results, planLog >>
    /\ UNCHANGED << stalled, encVars, planVars, upVars >>

\* a worker whose result reaches the consumer twice
DeliverTwice(k) ==
    /\ k \in DOMAIN workers
    /\ workers[k].pc = "send"
    /\ results' = Append(Append(results, workers[k].e), workers[k].e)
    /\ workers' = [workers EXCEPT ![k] = [pc |-> "recv", e |-> 0]]
    /\ UNCHANGED << chunkSize, entriesCount, tableRows, w, dumpPc, dumpErr,
                    entries, dispPc, next, closed, planLog, dbLog >>
    /\ UNCHANGED << stalled, encVars, planVars, upVars >>

\* a buffered d.resultsChannel: worker k's send completes with no receiver
DeliverBuffered(k) ==
    /\ k \in DOMAIN workers
    /\ workers[k].pc = "send"
    /\ workers' = [workers EXCEPT ![k] = [pc |-> "recv", e |-> 0]]
    /\ UNCHANGED << chunkSize, entriesCount, tableRows, w, dumpPc, dumpErr,
                    entries, dispPc, next, closed, planLog, dbLog, results >>
    /\ UNCHANGED << stalled, encVars, planVars, upVars >>

\* results handed to the consumer in dispatch order only
DeliverInOrder(k) ==
    /\ k \in DOMAIN workers
    /\ workers[k].pc = "send"
    /\ workers[k].e = Len(results) + 1
    /\ results' = Append(results, workers[k].e)
    /\ workers' = [workers EXCEPT ![k] = [pc |-> "recv", e |-> 0]]
    /\ UNCHANGED << chunkSize, entriesCount, tableRows, w, dumpPc, dumpErr,
                    entries, dispPc, next, closed, planLog, dbLog >>
    /\ UNCHANGED << stalled, encVars, planVars, upVars >>

\* d.resultsChannel is unbuffered: worker k's send and the consumer's
\* receive are one hand-over
Deliver(k) ==
    /\ k \in DOMAIN workers
    /\ workers[k].pc = "send"
    /\ results' = Append(results, workers[k].e)
    /\ workers' = [workers EXCEPT ![k] = [pc |-> "recv", e |-> 0]]
    /\ UNCHANGED << chunkSize, entriesCount, tableRows, w, dumpPc, dumpErr,
                    entries, dispPc, next, closed, planLog, dbLog >>
    /\ UNCHANGED << stalled, encVars, planVars, upVars >>

allReplies ==
    { [kind |-> k, at |-> a] :
        k \in {"ok", "queryErr", "columnsErr", "scanErr", "nextErr", "noQuery"},
        a \in 0..MaxChunkSize }

PoolInit ==
    /\ entriesCount = 0
    /\ w = 0
    /\ dumpPc = "idle"
    /\ dumpErr = "nil"
    /\ entries = << >>
    /\ workers = << >>
    /\ dispPc = "none"
    /\ next = 1
    /\ closed = FALSE
    /\ results = << >>
    /\ planLog = noPlan
    /\ dbLog = << >>

EncIdle  == encPc = "off" /\ encIn = NullCol /\ encOut = << >>
PlanIdle == planPc = "off" /\ planIn = [total |-> 0, chunk |-> 1] /\ planOut = << >>
UpIdle ==
    /\ upPc = "off"
    /\ upRows = << >>
    /\ upStmt = NoStatement
    /\ upTarget = << >>
    /\ upOnce = << >>
    /\ upApplied = 0

Init ==
    /\ chunkSize \in 1..MaxChunkSize
    /\ tableRows \in 0..MaxRows
    /\ stalled = 0
    /\ PoolInit
    /\ EncIdle
    /\ PlanIdle
    /\ UpIdle

Next ==
    \/ \E win \in (-1)..MaxW, plan \in planReplies :
          Dump(win, plan)
    \/ \E k \in DOMAIN workers : WorkerRecv(k)
    \/ DispatcherClose
    \/ \E k \in DOMAIN workers : WorkerExit(k)
    \/ \E k \in DOMAIN workers, reply \in allReplies :
          WorkerExtract(k, reply)
    \/ \E k \in DOMAIN workers : Deliver(k)

Spec == Init /\ [][Next]_vars

\* as long as some goroutine can take a step one of them does: the Go
\* scheduler runs runnable goroutines, the database answers every query it
\* is asked, and the consumer keeps receiving from d.resultsChannel
FairSpec == Spec /\ WF_vars(Next)

\* the pipeline when the range query of one entry never returns: every
\* other step that can be taken is taken
StallInit ==
    /\ chunkSize \in 1..MaxChunkSize
    /\ tableRows \in 0..MaxRows
    /\ stalled \in 1..(IF tableRows = 0 THEN 1 ELSE ceilDiv(tableRows, chunkSize))
    /\ PoolInit
    /\ EncIdle
    /\ PlanIdle
    /\ UpIdle

StallFairSpec == StallInit /\ [][Next]_vars /\ WF_vars(Next)

\* rows are deleted from the source table while the dump runs, after the
\* planning and before the last range query
SourceDelete(n) ==
    /\ dispPc # "none"
    /\ \E i \in DOMAIN dbLog : dbLog[i].kind = "pending"
    /\ n < tableRows
    /\ tableRows' = n
    /\ UNCHANGED << chunkSize, entriesCount, w, dumpPc, dumpErr, entries,
                    workers, dispPc, next, closed, results, planLog, dbLog >>
    /\ UNCHANGED << stalled, encVars, planVars, upVars >>

NextChanging ==
    \/ Next
    \/ \E n \in 0..MaxRows : SourceDelete(n)

SpecChanging == Init /\ [][NextChanging]_vars

(***************************************************************************)
(* The Value Encoder on its own: one column value in, its token out.       *)
(***************************************************************************)
\* runes of the bounded inputs: \ ' a u 3, U+FF3C (fullwidth backslash)
\* and the byte 0xFF, which no UTF-8 sequence contains
encAlphabet == { 92, 39, 97, 117, 51, 65340, -255 }

encStrings == UNION { [1..n -> encAlphabet] : n \in 0..MaxLen }

encInputs ==
    { NullCol }
    \cup { TextCol(s) : s \in encStrings }
    \cup { TextCol(<< 78, 85, 76, 76 >>),                   \* NULL
           TextCol(<< 79, 39, 66, 114, 105, 101, 110 >>),   \* O'Brien
           TextCol(<< 99, 117, 102, 102, 51 >>) }           \* cuff3

EncodeStep ==
    /\ encPc = "in"
    /\ encOut' = encodeValue(encIn)
    /\ encPc' = "out"
    /\ UNCHANGED << encIn, poolVars, planVars, upVars >>

InitEnc ==
    /\ chunkSize = 1
    /\ tableRows = 0
    /\ stalled = 0
    /\ PoolInit
    /\ PlanIdle
    /\ UpIdle
    /\ encPc = "in"
    /\ encIn \in encInputs
    /\ encOut = << >>

NextEnc == EncodeStep

SpecEnc == InitEnc /\ [][NextEnc]_vars

(***************************************************************************)
(* The Chunk Planner on its own: (total, chunkSize) in, the entries out.   *)
(***************************************************************************)
planInputs ==
    [ total : 0..MaxPlanTotal, chunk : 1..MaxPlanChunk ]
    \cup [ total : {0, 1, 999, 1000, 1001, 2000, 2500},
           chunk : {defaultChunkSize} ]

PlanStep ==
    /\ planPc = "in"
    /\ planOut' = getDumpEntries(planIn.total, planIn.chunk, "SET x",
                                 "CREATE DATABASE db", "USE db;CREATE TABLE t")
    /\ planPc' = "out"
    /\ UNCHANGED << planIn, poolVars, encVars, upVars >>

InitPlan ==
    /\ chunkSize = 1
    /\ tableRows = 0
    /\ stalled = 0
    /\ PoolInit
    /\ EncIdle
    /\ UpIdle
    /\ planPc = "in"
    /\ planIn \in planInputs
    /\ planOut = << >>

NextPlan == PlanStep

SpecPlan == InitPlan /\ [][NextPlan]_vars

(***************************************************************************)
(* A chunk's statement applied to a target table whose first column has a  *)
(* unique key: the rows of a chunk in, the statement built as getChunkData *)
(* builds it, then applied once and once more.                             *)
(***************************************************************************)
\* inside of a quoted literal: index of its closing quote, from p on
RECURSIVE closingQuote(_, _)
closingQuote(t, p) ==
    IF p > Len(t) THEN Len(t) + 1
    ELSE IF t[p] = 92 THEN closingQuote(t, p + 2)
    ELSE IF t[p] = 39 THEN p
    ELSE closingQuote(t, p + 1)

\* a backslash-plus-rune pair of a literal read as that rune
RECURSIVE unescapeLiteral(_)
unescapeLiteral(t) ==
    IF t = << >> THEN << >>
    ELSE IF t[1] = 92 /\ Len(t) >= 2
    THEN << t[2] >> \o unescapeLiteral(SubSeq(t, 3, Len(t)))
    ELSE << t[1] >> \o unescapeLiteral(Tail(t))

\* the column values of a comma-separated list of NULL and quoted literals
RECURSIVE parseLiterals(_)
parseLiterals(t) ==
    IF t = << >> THEN << >>
    ELSE IF t[1] = 44 THEN parseLiterals(Tail(t))
    ELSE IF t[1] = 39
    THEN LET e == closingQuote(t, 2)
         IN  << TextCol(unescapeLiteral(SubSeq(t, 2, e - 1))) >>
             \o parseLiterals(SubSeq(t, e + 1, Len(t)))
    ELSE << NullCol >> \o parseLiterals(SubSeq(t, 5, Len(t)))

\* the row a tuple "(...)" of the value list stands for
parseTuple(t) == parseLiterals(SubSeq(t, 2, Len(t) - 1))

\* one row of INSERT ... ON DUPLICATE KEY UPDATE <update>=VALUES(<update>):
\* a row whose key equals the new row's key keeps its place and gets the
\* new value of the update column; otherwise the row is inserted.  A unique
\* key does not make two NULLs equal.
upsertRow(target, row, updateCol) ==
    IF ~row[1].null /\ \E j \in DOMAIN target : target[j][1] = row[1]
    THEN [ j \in DOMAIN target |->
             IF target[j][1] = row[1]
             THEN [target[j] EXCEPT ![updateCol] = row[updateCol]]
             ELSE target[j] ]
    ELSE Append(target, row)

RECURSIVE upsertRows(_, _, _)
upsertRows(target, tuples, updateCol) ==
    IF tuples = << >> THEN target
    ELSE upsertRows(upsertRow(target, parseTuple(Head(tuples)), updateCol),
                    Tail(tuples), updateCol)

\* the target after the statement: an empty statement text and a statement
\* with an empty value list are rejected and change nothing
applyStatement(target, stmt) ==
    IF ~stmt.stmt \/ stmt.tuples = << >>
    THEN target
    ELSE upsertRows(target, stmt.tuples,
                    CHOOSE c \in DOMAIN stmt.columns : stmt.columns[c] = stmt.update)

\* first-column and second-column values of the bounded chunks
upsertKeys == { NullCol, TextCol(<< >>), TextCol(<< 49 >>), TextCol(<< 50 >>) }
upsertVals == { NullCol, TextCol(<< 97, 39 >>) }
upsertRowsIn == { << k, v >> : k \in upsertKeys, v \in upsertVals }

\* initial contents of the target: empty or one row
upsertTargets ==
    { << >> } \cup { << << k, TextCol(<< 111 >>) >> >> : k \in upsertKeys }

\* the statement getChunkData builds from the rows it scanned
UpsertBuild ==
    /\ upPc = "rows"
    /\ upStmt' = statement(columns, [ j \in DOMAIN upRows |-> encodeRow(upRows[j]) ])
    /\ upPc' = "stmt"
    /\ UNCHANGED << upRows, upTarget, upOnce, upApplied, poolVars, encVars, planVars >>

\* the statement executed on the target
UpsertApply ==
    /\ upPc = "stmt"
    /\ upApplied < 2
    /\ upTarget' = applyStatement(upTarget, upStmt)
    /\ upOnce' = IF upApplied = 0 THEN upTarget' ELSE upOnce
    /\ upApplied' = upApplied + 1
    /\ UNCHANGED << upPc, upRows, upStmt, poolVars, encVars, planVars >>

InitUpsert ==
    /\ chunkSize = 1
    /\ tableRows = 0
    /\ stalled = 0
    /\ PoolInit
    /\ EncIdle
    /\ PlanIdle
    /\ upPc = "rows"
    /\ upRows \in UNION { [1..n -> upsertRowsIn] : n \in 0..MaxUpsertRows }
    /\ upStmt = NoStatement
    /\ upTarget \in upsertTargets
    /\ upOnce = << >>
    /\ upApplied = 0

NextUpsert == UpsertBuild \/ UpsertApply

SpecUpsert == InitUpsert /\ [][NextUpsert]_vars

(***************************************************************************)
(* Properties.                                                             *)
(***************************************************************************)
\* workers holding entry i (received, result not yet handed over)
holders(i) ==
    { k \in DOMAIN workers : workers[k].pc \in {"work", "send"} /\ workers[k].e = i }

\* how many times entry i arrived on the results stream
deliveries(i) == Cardinality({ j \in DOMAIN results : results[j] = i })

\* entry i has been handed to a worker by the dispatcher
dispatched(i) == dispPc # "none" /\ i < next

allWorkersDone ==
    workers # << >> /\ \A k \in DOMAIN workers : workers[k].pc = "done"

\* C1: every dispatched job is, at any moment, either held by exactly one
\* worker or delivered exactly once on the results stream; a job not yet
\* dispatched is held by nobody and has no result; every result is a
\* dispatched job; once all workers have left, each job has one result.
C1_ExactlyOnce ==
    /\ \A i \in DOMAIN entries :
          Cardinality(holders(i)) + deliveries(i) = IF dispatched(i) THEN 1 ELSE 0
    /\ \A j \in DOMAIN results :
          results[j] \in DOMAIN entries /\ dispatched(results[j])
    /\ \A k \in DOMAIN workers :
          workers[k].pc \in {"work", "send"} => workers[k].e \in DOMAIN entries
    /\ allWorkersDone => \A i \in DOMAIN entries : deliveries(i) = 1

C1_Witness ==
    /\ allWorkersDone
    /\ Cardinality(DOMAIN workers) = 2
    /\ Len(entries) = 2
    /\ results = << 2, 1 >>

\* the range query of entry i failed with an error getChunkData returns
failedReply(i) == dbLog[i].kind \in {"queryErr", "columnsErr", "scanErr"}

\* C2: once the pool is started the consumer eventually holds exactly as
\* many results as jobs were planned, never more, whichever range queries
\* fail; a delivered job whose extraction returned an error has it set.
C2_DrainTerminates ==
    /\ (dispPc = "send") ~> (Len(results) = Len(entries))
    /\ [](Len(results) <= entriesCount)
    /\ [](\A j \in DOMAIN results :
             failedReply(results[j]) => entries[results[j]].err # "nil")

C2_Witness ==
    /\ Len(entries) = 2
    /\ Len(results) = 2
    /\ dbLog[1].kind = "queryErr"
    /\ entries[1].err = "queryErr"
    /\ entries[2].err = "nil" /\ entries[2].Values.stmt

\* C3: for total R and chunk size C the planner returns n >= 1 entries with
\* n the least count such that n * C >= R, entry i (0-based) at offset i * C
\* with Counter 0 and RowsCount R, and every row index of [0, R) lies in the
\* range [Offset, Offset + C) of exactly one entry.
C3_PlannerCoversRows ==
    planPc = "out" =>
        LET R == planIn.total
            C == planIn.chunk
            n == Len(planOut)
        IN  /\ n >= 1
            /\ n * C >= R
            /\ (n > 1 => (n - 1) * C < R)
            /\ \A i \in 1..n :
                  /\ planOut[i].Offset = (i - 1) * C
                  /\ planOut[i].Counter = 0
                  /\ planOut[i].RowsCount = R
            /\ \A r \in 0..(R - 1) :
                  Cardinality({ i \in 1..n :
                      planOut[i].Offset <= r /\ r < planOut[i].Offset + C }) = 1

C3_Witness ==
    /\ planPc = "out"
    /\ planIn = [total |-> 2500, chunk |-> 1000]
    /\ Len(planOut) = 3
    /\ planOut[3].Offset = 2000

\* C4: whenever the job queue is closed every planned job has been handed
\* over, and no hand-over happens once it is closed.
C4_ClosedAfterAllSent ==
    /\ [](closed => next = Len(entries) + 1)
    /\ [][closed => next' = next]_vars

C4_Witness ==
    /\ closed
    /\ Len(entries) = 2
    /\ next = 3

\* C5: after a successful planning Dump has started min(w, chunks) workers
\* and the dispatcher when that is >= 1; otherwise (w < 1) it returned nil
\* with no worker, no dispatcher, nothing handed over and no result.
C5_WorkersClamped ==
    (dumpPc = "returned" /\ dumpErr = "nil" /\ entries # << >>) =>
        LET m == IF w <= Len(entries) THEN w ELSE Len(entries)
        IN  IF m >= 1
            THEN /\ Cardinality(DOMAIN workers) = m
                 /\ DOMAIN workers = 1..m
                 /\ dispPc # "none"
            ELSE /\ w < 1
                 /\ workers = << >>
                 /\ dispPc = "none"
                 /\ next = 1
                 /\ ~closed
                 /\ results = << >>

C5_Witness ==
    /\ dumpPc = "returned"
    /\ w = 2
    /\ Len(entries) = 1
    /\ Cardinality(DOMAIN workers) = 1
    /\ results = << 1 >>

\* the replies of the planning queries make Dump fail
planningFails ==
    \/ planLog.create.err
    \/ planLog.create.table # TableName
    \/ planLog.count = "err"

\* C7: when the CREATE-TABLE lookup fails or names another table, or the
\* row count fails, Dump has returned that error and there is no worker, no
\* dispatcher, no job handed over and no result.
C7_PlanningFailureStartsNothing ==
    (dumpPc = "returned" /\ planningFails) =>
        /\ dumpErr # "nil"
        /\ dumpErr = IF planLog.create.err THEN "queryErr"
                     ELSE IF planLog.create.table # TableName
                     THEN "Returned table is not the same as requested table"
                     ELSE "queryErr"
        /\ workers = << >>
        /\ dispPc = "none"
        /\ next = 1
        /\ ~closed
        /\ results = << >>
        /\ entries = << >>

C7_Witness ==
    /\ dumpPc = "returned"
    /\ planLog.create.table = "other"
    /\ ~planLog.create.err
    /\ w = 2
    /\ tableRows = 2
    /\ dumpErr = "Returned table is not the same as requested table"

\* C8: with a planning-time row count of 0 there is exactly one job, its
\* extraction asks no range query, and its result has the empty statement,
\* a nil error and Counter 0.
C8_EmptyTable ==
    (dumpPc = "returned" /\ dumpErr = "nil" /\ entries # << >>
       /\ entries[1].RowsCount = 0) =>
        /\ Len(entries) = 1
        /\ ~dbLog[1].queried
        /\ entries[1].Values = NoStatement
        /\ entries[1].err = "nil"
        /\ entries[1].Counter = 0

C8_Witness ==
    /\ entries # << >>
    /\ entries[1].RowsCount = 0
    /\ results = << 1 >>
    /\ dbLog[1].kind = "noQuery"

\* C10: NULL encodes to the bare token NULL; any other value, the empty
\* string included, encodes to a token of at least two runes that starts
\* and ends with a single quote (the empty string to ''), so it differs
\* from the token of NULL.
C10_NullDistinct ==
    encPc = "out" =>
        IF encIn.null
        THEN encOut = << 78, 85, 76, 76 >>
        ELSE /\ Len(encOut) >= 2
             /\ encOut[1] = 39
             /\ encOut[Len(encOut)] = 39
             /\ (encIn.text = << >> => encOut = << 39, 39 >>)
             /\ encOut # << 78, 85, 76, 76 >>

C10_Witness ==
    /\ encPc = "out"
    /\ encIn = TextCol(<< 78, 85, 76, 76 >>)
    /\ encOut = << 39, 78, 85, 76, 76, 39 >>

\* entry i went through getChunkData
extracted(i) == dbLog[i].kind # "pending"

\* C6: a job whose range query or row reading failed (query, column
\* metadata, row scan, or row iteration ended early by an error) has a
\* non-nil error and the empty statement, with only the rows before the
\* failure counted; a job with a nil error had all its rows read.
C6_FailedChunkCarriesError ==
    \A i \in DOMAIN entries :
        extracted(i) =>
            /\ dbLog[i].kind \in {"queryErr", "columnsErr", "scanErr", "nextErr"} =>
                  /\ entries[i].err # "nil"
                  /\ entries[i].Values = NoStatement
                  /\ entries[i].Counter <= dbLog[i].at
            /\ entries[i].err = "nil" => dbLog[i].kind \in {"ok", "noQuery"}

\* the needs-escaping set as described: backslash, the single, double and
\* back quote, and the look-alike quote and backslash runes
needsEscapingSet ==
    { 92, 165, 352, 8361, 8726, 65128, 65340,
      34, 39, 96, 180, 697, 698, 699, 700, 712, 714, 715, 729, 768, 769,
      8216, 8217, 8218, 8242, 8245, 10075, 10076, 65287 }

\* s with a backslash before exactly its runes that belong to set
RECURSIVE escapedBy(_, _)
escapedBy(s, set) ==
    IF s = << >> THEN << >>
    ELSE (IF Head(s) \in set THEN << 92, Head(s) >> ELSE << Head(s) >>)
         \o escapedBy(Tail(s), set)

\* C9: the token of a non-NULL value is the value between single quotes
\* with a backslash before exactly the runes of the needs-escaping set;
\* letters and digits get no backslash.
C9_EscapesExactlyTheSet ==
    (encPc = "out" /\ ~encIn.null) =>
        encOut = << 39 >> \o escapedBy(encIn.text, needsEscapingSet) \o << 39 >>

\* reading a quoted token's inside back: each backslash-plus-rune pair
\* stands for that rune
RECURSIVE unescape(_)
unescape(t) ==
    IF t = << >> THEN << >>
    ELSE IF t[1] = 92 /\ Len(t) >= 2
    THEN << t[2] >> \o unescape(SubSeq(t, 3, Len(t)))
    ELSE << t[1] >> \o unescape(Tail(t))

\* C11: taking the quotes off the token of a non-NULL value and undoing
\* the backslash pairs gives the value back, and a value with no rune of
\* the needs-escaping set has no backslash in its token.
C11_RoundTrip ==
    (encPc = "out" /\ ~encIn.null) =>
        /\ Len(encOut) >= 2
        /\ unescape(SubSeq(encOut, 2, Len(encOut) - 1)) = encIn.text
        /\ (\A i \in DOMAIN encIn.text : encIn.text[i] \notin needsEscapingSet)
              => (\A j \in DOMAIN encOut : encOut[j] # 92)

\* the pool was started by Dump
started == dispPc # "none"

\* every planned job has its result with the consumer
drained == started /\ Len(results) = Len(entries)

\* rows a range query at offset o returns from a table of R rows
rowsInRange(R, C, o) == IF R <= o THEN 0 ELSE IF R - o < C THEN R - o ELSE C

\* the rows-processed counter the reply logged for job i leads to
counterOfReply(i) ==
    CASE dbLog[i].kind = "ok"      -> rowsInRange(tableRows, chunkSize, (i - 1) * chunkSize)
      [] dbLog[i].kind = "scanErr" -> dbLog[i].at - 1
      [] dbLog[i].kind = "nextErr" -> dbLog[i].at
      [] OTHER                     -> 0

\* C13: once all results are drained there is, for each chunk index i of
\* the table, exactly one result with offset (i - 1) * chunkSize, and its
\* counter and its error/no-error are those the table and the reply of its
\* range query determine: nothing depends on w or on the interleaving.
C13_ResultsIndependentOfW ==
    drained =>
        LET n == IF tableRows = 0 THEN 1
                 ELSE CHOOSE m \in 1..tableRows :
                        m * chunkSize >= tableRows /\ (m - 1) * chunkSize < tableRows
        IN  /\ Len(results) = n
            /\ \A i \in 1..n :
                  LET at == { j \in DOMAIN results :
                                entries[results[j]].Offset = (i - 1) * chunkSize }
                  IN  /\ Cardinality(at) = 1
                      /\ \A j \in at :
                            /\ entries[results[j]].Counter = counterOfReply(i)
                            /\ (entries[results[j]].err # "nil") = failedReply(i)

C13_Witness ==
    /\ drained
    /\ w = 2
    /\ tableRows = 2
    /\ chunkSize = 1
    /\ results = << 2, 1 >>
    /\ entries[1].Counter = 1
    /\ entries[2].Counter = 1

\* C14: once the pool is started, the dispatcher ends with the queue closed
\* and every worker leaves its receive loop.
C14_PoolTerminates ==
    started ~> (dispPc = "done" /\ closed /\ allWorkersDone)

C14_Witness ==
    /\ dispPc = "done"
    /\ closed
    /\ allWorkersDone
    /\ Cardinality(DOMAIN workers) = 2
    /\ Len(results) = 2

\* workers holding a job
busyWorkers == { k \in DOMAIN workers : workers[k].pc \in {"work", "send"} }

\* C15: Dump has returned as soon as the pool exists; as long as nothing
\* has been received from the results stream, each worker has taken at most
\* one job (so at most workersCount jobs left the queue), no worker has
\* left its loop, a worker at its send stays there, and with more jobs than
\* workers the dispatcher is still at its send and the queue is not closed.
C15_NoConsumerBlocks ==
    /\ [](started => dumpPc = "returned")
    /\ [](results = << >> =>
            /\ next - 1 = Cardinality(busyWorkers)
            /\ next - 1 <= Cardinality(DOMAIN workers)
            /\ \A k \in DOMAIN workers : workers[k].pc # "done"
            /\ (started /\ Len(entries) > Cardinality(DOMAIN workers)) =>
                  (dispPc = "send" /\ ~closed))
    /\ [][results' = << >> =>
            \A k \in DOMAIN workers :
                workers[k].pc = "send" => workers'[k] = workers[k]]_vars

C15_Witness ==
    /\ results = << >>
    /\ dumpPc = "returned"
    /\ Len(entries) = 2
    /\ Cardinality(DOMAIN workers) = 1
    /\ workers[1] = [pc |-> "send", e |-> 1]
    /\ dispPc = "send"
    /\ next = 2

\* C16: a job is held by at most one worker, the jobs taken from the queue
\* whose result is not yet handed over are the jobs held and are no more
\* than the workers, and an entry changes only in a step of the one worker
\* that holds it, between its receive and its send.
C16_OneOwner ==
    /\ [](\A i \in DOMAIN entries : Cardinality(holders(i)) <= 1)
    /\ [](/\ (next - 1) - Len(results) <= Cardinality(DOMAIN workers)
          /\ started => (next - 1) - Len(results) = Cardinality(busyWorkers))
    /\ [][\A i \in DOMAIN entries :
            (i \in DOMAIN entries' /\ entries'[i] # entries[i]) =>
                \E k \in DOMAIN workers :
                    /\ holders(i) = {k}
                    /\ workers[k].pc = "work"
                    /\ workers'[k] = [pc |-> "send", e |-> i]]_vars

C16_Witness ==
    /\ Cardinality(DOMAIN workers) = 2
    /\ workers[1] = [pc |-> "send", e |-> 2]
    /\ workers[2] = [pc |-> "work", e |-> 1]
    /\ entries[2].Counter = 1
    /\ entries[1].Counter = 0

\* C17: the planner's entries are in ascending offset, and the entry a
\* worker receives is always the one after all entries received before it.
C17_DispatchInPlannerOrder ==
    /\ [](\A i, j \in DOMAIN entries :
             i < j => entries[i].Offset < entries[j].Offset)
    /\ [][\A k \in DOMAIN workers :
            (k \in DOMAIN workers' /\ workers[k].pc = "recv"
               /\ workers'[k].pc = "work") =>
                workers'[k].e = Cardinality(busyWorkers) + Len(results) + 1]_vars

C17_Witness ==
    /\ Cardinality(DOMAIN workers) = 2
    /\ Len(results) = 2
    /\ entries[results[1]].Offset > entries[results[2]].Offset

\* C18: when the range query of one job never returns and there are at
\* least two workers, every other job's result is eventually delivered and
\* the stalled job's never is; with one worker nothing is delivered once it
\* holds the stalled job.
C18_StallCostsOneWorker ==
    /\ (started /\ Cardinality(DOMAIN workers) >= 2) ~>
          (\A i \in DOMAIN entries : i # stalled => deliveries(i) = 1)
    /\ [](\A i \in DOMAIN entries : queryHangs(i) => deliveries(i) = 0)
    /\ [][(/\ DOMAIN workers = {1}
           /\ workers[1].pc = "work"
           /\ queryHangs(workers[1].e)) => results' = results]_vars

C18_Witness ==
    /\ stalled = 1
    /\ Cardinality(DOMAIN workers) = 2
    /\ Len(entries) = 2
    /\ \E k \in DOMAIN workers : workers[k] = [pc |-> "work", e |-> 1]
    /\ results = << 2 >>
    /\ closed

\* C19: on the unchanged table, with no failure, the result of the job at
\* offset o has Counter min(chunkSize, rows - o), which is the number of
\* tuples of its statement, and once every job is extracted the counters
\* add up to the row count.
C19_CountersMatchRows ==
    LET RECURSIVE sum(_)
        sum(i) == IF i = 0 THEN 0 ELSE entries[i].Counter + sum(i - 1)
        clean(i) == dbLog[i].kind \in {"ok", "noQuery"}
    IN  /\ \A i \in DOMAIN entries :
              clean(i) =>
                  /\ entries[i].Counter =
                        IF chunkSize <= tableRows - entries[i].Offset
                        THEN chunkSize
                        ELSE tableRows - entries[i].Offset
                  /\ entries[i].Counter = Len(entries[i].Values.tuples)
                  /\ entries[i].RowsCount = tableRows
        /\ (entries # << >> /\ \A i \in DOMAIN entries : clean(i)) =>
              sum(Len(entries)) = tableRows

C19_Witness ==
    /\ tableRows = 2
    /\ chunkSize = 1
    /\ Len(entries) = 2
    /\ dbLog[1].kind = "ok" /\ dbLog[2].kind = "ok"
    /\ entries[1].Counter = 1 /\ entries[2].Counter = 1

\* C20: a result whose range query was answered without failure and
\* returned no row has the empty statement, also when the planning-time
\* row count was positive.
C20_NoRowsNoStatement ==
    \A i \in DOMAIN entries :
        (dbLog[i].kind \in {"ok", "noQuery"} /\ entries[i].Counter = 0) =>
            entries[i].Values = NoStatement

====
